---- MODULE Spec2Model ----
(***************************************************************************)
(* Model of the facility telemetry service: the job controller of          *)
(* app/scheduler.py (start / pause / resume / stop of the one interval     *)
(* job "snapshot_job"), the snapshot generator generate_snapshot and the   *)
(* retention pass retain_last_n over the snapshot_executions and           *)
(* facility_metrics tables, and the request check authenticate of auth.py. *)
(*                                                                         *)
(* The store variables (executions, metrics) hold the COMMITTED rows, what *)
(* any other session can read.  What a generation run has added to or      *)
(* deleted in its own session and not yet committed lives in the run's     *)
(* record (pending, deleted).  Every database round trip of a run may      *)
(* fail; a failed commit rolls the session's transaction back.             *)
(*                                                                         *)
(* Time is a discrete clock.  An event at clock value t happens after the  *)
(* timer instants <= t and before those > t.  energy_kwh, water_liters,    *)
(* open_tickets and execution_duration_ms are left out of the rows: no     *)
(* control flow reads them.                                                *)
(***************************************************************************)
EXTENDS Integers, Sequences, FiniteSets, TLC

\* ---------------------------------------------------------------- bounds
\* Clock values of Spec run from 0 to MaxTicks.
MaxTicks == 4
\* Rows of a store handed to retain_last_n in SpecRetain, and their times.
MaxRows == 4
MaxRowTime == 2
\* Largest small limit handed to retain_last_n in SpecRetain.
MaxLimit == 3
\* Largest capacity of the one-facility tables of SpecGenerate.
MaxCapacity == 12
\* Clock values of SpecLive run from 0 to MaxLiveTicks: three fire times of a
\* job started at 0.
MaxLiveTicks == 6

\* ------------------------------------------------------ program constants
JOB_ID == "snapshot_job"
\* seconds=2 of add_job
INTERVAL == 2
\* the limit generate_snapshot passes to retain_last_n
RETAIN_LIMIT == 50

VARIABLES
  now,            \* the clock (datetime.utcnow / the scheduler's clock)
  jobs,           \* the scheduler's job store: set of job records
  timers,         \* number of timers of the scheduler running (scheduler.running iff > 0)
  app,            \* the application: "serving", "stopping" (its shutdown event has
                  \* run, the scheduler's own shutdown has not yet) or "stopped"
  last_call,      \* the last administrative call: operation, job state before, token
  facilities,     \* facilities table, in storage order
  hvac_statuses,  \* ids of the hvac_statuses table
  executions,     \* committed snapshot_executions rows
  metrics,        \* committed facility_metrics rows
  next_exec_id,   \* next primary key of snapshot_executions
  next_metric_id, \* next primary key of facility_metrics
  runs,           \* generate_snapshot calls in flight, in the order started
  last_run,       \* how the most recently finished call ended
  probe,          \* SpecRetain only: the argument and input of retain_last_n
  auth            \* SpecAuth only: the request, allowed list and outcome of authenticate

vars ==
  <<now, jobs, timers, app, last_call, facilities, hvac_statuses, executions, metrics,
    next_exec_id, next_metric_id, runs, last_run, probe, auth>>

ctl_vars == <<jobs, timers, app, last_call>>
ref_vars == <<facilities, hvac_statuses>>
db_vars == <<executions, metrics, next_exec_id, next_metric_id>>
gen_vars == <<runs, last_run>>

\* ---------------------------------------------------------------- helpers
Min(a, b) == IF a <= b THEN a ELSE b

Max(a, b) == IF a >= b THEN a ELSE b

Range(s) == {s[i] : i \in 1..Len(s)}

\* s[from..] of Python: the elements of s after the first n.
SliceFrom(s, n) == [i \in 1..Max(0, Len(s) - n) |-> s[i + n]]

\* ------------------------------------------------------- reference data
Facility(id, capacity, is_active) ==
  [id |-> id, capacity |-> capacity, is_active |-> is_active]

\* The deployments the model starts from (FACILITY_SEED and the contents of the
\* database file are deployment data): the reference tables, and how many
\* successful runs of earlier lifetimes of the service the store holds.
Deployment(table, statuses, seeded) ==
  [facilities |-> table, hvac_statuses |-> statuses, seeded |-> seeded]

\* db.query(Facility).filter(Facility.is_active == True).all()
ActiveFacilities(table) == SelectSeq(table, LAMBDA f : f.is_active)

\* int(0.4 * capacity) and int(0.9 * capacity), capacity >= 0
OccupancyLow(capacity) == (4 * capacity) \div 10

\* The upper bound rounded to the nearest integer where the code truncates.
OccupancyHighRounded(capacity) == (9 * capacity + 5) \div 10

OccupancyHigh(capacity) == (9 * capacity) \div 10

\* --------------------------------------------------------- job controller
\* next_run_time is <<>> for None (paused) and <<t>> for a fire time.
Job(id, start_date, next_run_time) ==
  [id |-> id, start_date |-> start_date, next_run_time |-> next_run_time]

get_job(id) == {j \in jobs : j.id = id}

\* The trigger's first fire time after `t` on the grid start_date + k*INTERVAL.
NextFireAfter(start_date, t) ==
  IF start_date > t
  THEN start_date
  ELSE start_date + INTERVAL * (((t - start_date) \div INTERVAL) + 1)

\* scheduler.add_job(generate_snapshot, "interval", seconds=2, id=JOB_ID,
\* replace_existing=True): the trigger starts one interval from now.
add_job(store, id) ==
  {j \in store : j.id # id} \cup {Job(id, now + INTERVAL, <<now + INTERVAL>>)}

JobState ==
  IF get_job(JOB_ID) = {} THEN "Absent"
  ELSE IF \E j \in get_job(JOB_ID) : j.next_run_time = <<>> THEN "Paused"
  ELSE "Active"

NoCall == [op |-> "none", pre |-> "Absent", ret |-> "none"]

Call(op, pre, ret) == [op |-> op, pre |-> pre, ret |-> ret]

Record(call) == last_call' = call

\* start_scheduler without its early return on a registered job.
start_scheduler_unguarded ==
  /\ app = "serving"
  /\ jobs' = add_job(jobs, JOB_ID)
  /\ timers' = IF timers = 0 THEN 1 ELSE timers
  /\ Record(Call("start", JobState, "started"))
  /\ UNCHANGED <<now, app, ref_vars, db_vars, gen_vars, probe, auth>>

start_scheduler ==
  /\ app = "serving"
  /\ IF get_job(JOB_ID) # {}
     THEN /\ Record(Call("start", JobState, "already_running"))
          /\ UNCHANGED <<jobs, timers>>
     ELSE /\ jobs' = add_job(jobs, JOB_ID)
          /\ timers' = IF timers = 0 THEN 1 ELSE timers
          /\ Record(Call("start", JobState, "started"))
  /\ UNCHANGED <<now, app, ref_vars, db_vars, gen_vars, probe, auth>>

pause_scheduler ==
  /\ app = "serving"
  /\ IF get_job(JOB_ID) = {}
     THEN /\ Record(Call("pause", JobState, "not_running"))
          /\ UNCHANGED jobs
     ELSE /\ jobs' = {IF j.id = JOB_ID THEN [j EXCEPT !.next_run_time = <<>>] ELSE j
                      : j \in jobs}
          /\ Record(Call("pause", JobState, "paused"))
  /\ UNCHANGED <<now, timers, app, ref_vars, db_vars, gen_vars, probe, auth>>

\* resume_scheduler that leaves a job that is not paused alone.
resume_scheduler_guarded ==
  /\ app = "serving"
  /\ IF get_job(JOB_ID) = {}
     THEN /\ Record(Call("resume", JobState, "not_running"))
          /\ UNCHANGED jobs
     ELSE IF JobState = "Active"
     THEN /\ Record(Call("resume", JobState, "already_running"))
          /\ UNCHANGED jobs
     ELSE /\ jobs' = {IF j.id = JOB_ID
                      THEN [j EXCEPT !.next_run_time = <<NextFireAfter(j.start_date, now)>>]
                      ELSE j
                      : j \in jobs}
          /\ Record(Call("resume", JobState, "resumed"))
  /\ UNCHANGED <<now, timers, app, ref_vars, db_vars, gen_vars, probe, auth>>

resume_scheduler ==
  /\ app = "serving"
  /\ IF get_job(JOB_ID) = {}
     THEN /\ Record(Call("resume", JobState, "not_running"))
          /\ UNCHANGED jobs
     ELSE /\ jobs' = {IF j.id = JOB_ID
                      THEN [j EXCEPT !.next_run_time = <<NextFireAfter(j.start_date, now)>>]
                      ELSE j
                      : j \in jobs}
          /\ Record(Call("resume", JobState, "resumed"))
  /\ UNCHANGED <<now, timers, app, ref_vars, db_vars, gen_vars, probe, auth>>

\* stop_scheduler that pauses the job where it should remove it.
stop_scheduler_pausing ==
  /\ app = "serving"
  /\ IF get_job(JOB_ID) = {}
     THEN /\ Record(Call("stop", JobState, "not_running"))
          /\ UNCHANGED jobs
     ELSE /\ jobs' = {IF j.id = JOB_ID THEN [j EXCEPT !.next_run_time = <<>>] ELSE j
                      : j \in jobs}
          /\ Record(Call("stop", JobState, "stopped"))
  /\ UNCHANGED <<now, timers, app, ref_vars, db_vars, gen_vars, probe, auth>>

stop_scheduler ==
  /\ app = "serving"
  /\ IF get_job(JOB_ID) = {}
     THEN /\ Record(Call("stop", JobState, "not_running"))
          /\ UNCHANGED jobs
     ELSE /\ jobs' = {j \in jobs : j.id # JOB_ID}
          /\ Record(Call("stop", JobState, "stopped"))
  /\ UNCHANGED <<now, timers, app, ref_vars, db_vars, gen_vars, probe, auth>>

\* shutdown() of main.py, the application's shutdown event: the server has
\* stopped serving requests, so no administrative call follows it.
\* if scheduler.running: scheduler.shutdown(wait=False): the scheduler hands
\* its shutdown to the event loop and returns, still running and the job still
\* registered.
shutdown ==
  /\ app = "serving"
  /\ app' = IF timers > 0 THEN "stopping" ELSE "stopped"
  /\ UNCHANGED <<now, jobs, timers, last_call, ref_vars, db_vars, gen_vars, probe, auth>>

\* The shutdown the event loop runs: the executor cancels the future of every
\* call in flight, whose callback gives the call's instance slot back while
\* its thread goes on running (wait=False); the memory job store is emptied
\* and the timer stopped.
scheduler_shutdown ==
  /\ app = "stopping"
  /\ app' = "stopped"
  /\ jobs' = {}
  /\ timers' = 0
  /\ runs' = [i \in 1..Len(runs) |-> [runs[i] EXCEPT !.counted = FALSE]]
  /\ Record(Call("shutdown", JobState, "none"))
  /\ UNCHANGED <<now, ref_vars, db_vars, last_run, probe, auth>>

\* ------------------------------------------------------------- the timer
Due(j) == j.next_run_time # <<>> /\ j.next_run_time[1] <= now

\* The latest fire time of a due job that is not after now: the run times the
\* scheduler finds when it wakes are coalesced into this one.
LastFireTime(j) ==
  j.next_run_time[1] + INTERVAL * ((now - j.next_run_time[1]) \div INTERVAL)

\* A generate_snapshot call as the executor starts it.
NewRun ==
  [pc |-> "create", snapshot |-> 0, loaded |-> <<>>, statuses |-> {},
   pending |-> <<>>, old |-> <<>>, deleted |-> {}, err |-> "none",
   outcome |-> "none", retained |-> FALSE, purged |-> 0, counted |-> TRUE]

\* The instances of the job the executor counts as running.
Instances == Cardinality({i \in 1..Len(runs) : runs[i].counted})

\* The timer handing every firing to the executor, an instance running or not.
TimerFireAlways ==
  /\ timers > 0
  /\ \E j \in jobs :
       /\ Due(j)
       /\ jobs' = (jobs \ {j}) \cup
                  {[j EXCEPT !.next_run_time = <<LastFireTime(j) + INTERVAL>>]}
       /\ \/ runs' = Append(runs, NewRun)
          \/ now > LastFireTime(j) /\ runs' = runs
  /\ UNCHANGED <<now, timers, app, last_call, ref_vars, db_vars, last_run, probe, auth>>

\* The timer firing a paused job as well as a due one.
TimerFirePaused ==
  /\ timers > 0
  /\ \E j \in jobs :
       /\ Due(j) \/ j.next_run_time = <<>>
       /\ jobs' = IF j.next_run_time = <<>> THEN jobs
                  ELSE (jobs \ {j}) \cup
                       {[j EXCEPT !.next_run_time = <<LastFireTime(j) + INTERVAL>>]}
       /\ \/ Instances = 0 /\ runs' = Append(runs, NewRun)
          \/ /\ Instances > 0 \/ (j.next_run_time # <<>> /\ now > LastFireTime(j))
             /\ runs' = runs
  /\ UNCHANGED <<now, timers, app, last_call, ref_vars, db_vars, last_run, probe, auth>>

\* The scheduler wakes with the interval job due, at its fire time or after
\* it.  It re-arms the job one interval after the latest fire time reached
\* and hands one generate_snapshot call to the executor.  The executor refuses
\* the call while it counts an instance of the job as running (one instance
\* per job id); a call that comes a clock value late it runs or drops as a
\* misfire, as the time between the two clock values tells.  A refused or
\* dropped firing starts no call.
TimerFire ==
  /\ timers > 0
  /\ \E j \in jobs :
       /\ Due(j)
       /\ jobs' = (jobs \ {j}) \cup
                  {[j EXCEPT !.next_run_time = <<LastFireTime(j) + INTERVAL>>]}
       /\ \/ Instances = 0 /\ runs' = Append(runs, NewRun)
          \/ /\ Instances > 0 \/ now > LastFireTime(j)
             /\ runs' = runs
  /\ UNCHANGED <<now, timers, app, last_call, ref_vars, db_vars, last_run, probe, auth>>

\* A second passes, whether the scheduler has woken for a due job or not.
Tick ==
  /\ now < MaxTicks
  /\ now' = now + 1
  /\ UNCHANGED <<ctl_vars, ref_vars, db_vars, gen_vars, probe, auth>>

\* The same over the longer clock of SpecLive.
TickLive ==
  /\ now < MaxLiveTicks
  /\ now' = now + 1
  /\ UNCHANGED <<ctl_vars, ref_vars, db_vars, gen_vars, probe, auth>>

\* ------------------------------------------------------------- the store
Execution(id, execution_time, status) ==
  [id |-> id, execution_time |-> execution_time, status |-> status]

Metric(id, snapshot_id, facility_id, hvac_status_id, occupancy) ==
  [id |-> id, snapshot_id |-> snapshot_id, facility_id |-> facility_id,
   hvac_status_id |-> hvac_status_id, occupancy |-> occupancy]

\* A FacilityMetric added to the session and not yet flushed: no primary key yet.
PendingMetric(snapshot_id, facility_id, hvac_status_id, occupancy) ==
  [snapshot_id |-> snapshot_id, facility_id |-> facility_id,
   hvac_status_id |-> hvac_status_id, occupancy |-> occupancy]

\* The flush of the pending metric rows, keys handed out in the order added.
Flush(pending, first_id) ==
  {Metric(first_id + i - 1, pending[i].snapshot_id, pending[i].facility_id,
          pending[i].hvac_status_id, pending[i].occupancy) : i \in 1..Len(pending)}

MetricsOf(mets, snapshot_id) == {m \in mets : m.snapshot_id = snapshot_id}

\* snapshot.status = status, on the row of the run's own execution
SetStatus(execs, id, status) ==
  {IF e.id = id THEN [e EXCEPT !.status = status] ELSE e : e \in execs}

\* ---------------------------------------------------------- retain_last_n
\* Every order of a set of rows: the order the store gives rows the ORDER BY
\* does not tell apart.
RECURSIVE Orders(_)
Orders(rows) ==
  IF rows = {} THEN {<<>>}
  ELSE UNION {{<<e>> \o rest : rest \in Orders(rows \ {e})} : e \in rows}

\* The rows ordered from execution_time t upwards.
RECURSIVE OrderUpFrom(_, _)
OrderUpFrom(rows, t) ==
  IF rows = {} THEN {<<>>}
  ELSE LET tied == {x \in rows : x.execution_time = t}
       IN {first \o rest : first \in Orders(tied),
                           rest \in OrderUpFrom(rows \ tied, t + 1)}

\* The rows ordered from execution_time t downwards.
RECURSIVE OrderDownFrom(_, _)
OrderDownFrom(rows, t) ==
  IF rows = {} THEN {<<>>}
  ELSE LET tied == {x \in rows : x.execution_time = t}
       IN {first \o rest : first \in Orders(tied),
                           rest \in OrderDownFrom(rows \ tied, t - 1)}

\* The query ordered by execution_time ascending.
OrderByTimeAsc(rows) ==
  IF rows = {} THEN {<<>>}
  ELSE LET times == {x.execution_time : x \in rows}
       IN OrderUpFrom(rows, CHOOSE t \in times : \A u \in times : t <= u)

\* db.query(SnapshotExecution).order_by(execution_time.desc()).all(): every
\* order the store may return, rows of equal execution_time in any order.
OrderByTimeDesc(rows) ==
  IF rows = {} THEN {<<>>}
  ELSE LET times == {x.execution_time : x \in rows}
       IN OrderDownFrom(rows, CHOOSE t \in times : \A u \in times : t >= u)

\* The loop deleting each old execution and not its metric rows.
DeleteOldKeepingMetrics(execs, mets, old) ==
  [executions |-> {e \in execs : \A o \in old : e.id # o.id}, metrics |-> mets]

\* for old in executions[limit:]: delete old's metric rows, then old itself,
\* each by the id of the row read.
DeleteOld(execs, mets, old) ==
  [executions |-> {e \in execs : \A o \in old : e.id # o.id},
   metrics |-> {m \in mets : \A o \in old : m.snapshot_id # o.id}]

\* executions[limit + 1:]
OldRowsAfterOneMore(ordered, limit) ==
  IF Len(ordered) > limit + 1 THEN SliceFrom(ordered, limit + 1) ELSE <<>>

\* executions[limit:] for one order the query returned, under the guard
\* len(executions) > limit
OldRows(ordered, limit) ==
  IF Len(ordered) > limit THEN SliceFrom(ordered, limit) ELSE <<>>

\* The stores retain_last_n(db, limit) can commit when nothing else writes
\* between its query and its commit.
retain_last_n(execs, mets, limit) ==
  {DeleteOld(execs, mets, Range(OldRows(ordered, limit)))
     : ordered \in OrderByTimeDesc(execs)}

\* What the loop has deleted in the session when one of its statements
\* raises: the first k of executions[limit:], the (k+1)-th having failed.
PartialDeletes(old) ==
  {Range(SubSeq(old, 1, k)) : k \in 0..(Len(old) - 1)}

\* ------------------------------------------------------ generate_snapshot
\* The for loop over the loaded facilities: every list of metric rows it can
\* add to the session, and whether it ran to its end.  random.randint raises on
\* an empty range and random.choice on an empty status list; the rows added
\* before stay in the session.
\* The loop refusing an empty status list before it looks at any facility.
RECURSIVE LoopOutcomesStatusFirst(_, _, _, _)
LoopOutcomesStatusFirst(facs, statuses, snapshot_id, added) ==
  IF statuses = {} THEN {[ok |-> FALSE, pending |-> added]}
  ELSE IF facs = <<>> THEN {[ok |-> TRUE, pending |-> added]}
  ELSE LET f == Head(facs)
           lo == OccupancyLow(f.capacity)
           hi == OccupancyHigh(f.capacity)
       IN IF lo > hi
          THEN {[ok |-> FALSE, pending |-> added]}
          ELSE UNION { LoopOutcomesStatusFirst(Tail(facs), statuses, snapshot_id,
                                    Append(added, PendingMetric(snapshot_id, f.id, h, occ)))
                       : <<occ, h>> \in (lo..hi) \X statuses }

RECURSIVE LoopOutcomes(_, _, _, _)
LoopOutcomes(facs, statuses, snapshot_id, added) ==
  IF facs = <<>> THEN {[ok |-> TRUE, pending |-> added]}
  ELSE LET f == Head(facs)
           lo == OccupancyLow(f.capacity)
           hi == OccupancyHigh(f.capacity)
       IN IF lo > hi \/ statuses = {}
          THEN {[ok |-> FALSE, pending |-> added]}
          ELSE UNION { LoopOutcomes(Tail(facs), statuses, snapshot_id,
                                    Append(added, PendingMetric(snapshot_id, f.id, h, occ)))
                       : <<occ, h>> \in (lo..hi) \X statuses }

Update(i, run) == runs' = [runs EXCEPT ![i] = run]

\* The body of the call is over, by return or by an exception leaving the
\* handler: what is left is finally.  The session's pending state and the
\* locals are not used again.
End(i, outcome, retained, purged) ==
  Update(i, [runs[i] EXCEPT !.pc = "finally", !.outcome = outcome,
                            !.retained = retained, !.purged = purged,
                            !.loaded = <<>>, !.statuses = {}, !.pending = <<>>,
                            !.old = <<>>, !.deleted = {}])

\* The call is over and the executor forgets the instance.
Finish(i) ==
  /\ runs' = SubSeq(runs, 1, i - 1) \o SubSeq(runs, i + 1, Len(runs))
  /\ last_run' = [outcome |-> runs[i].outcome, snapshot |-> runs[i].snapshot,
                  err |-> runs[i].err, retained |-> runs[i].retained,
                  purged |-> runs[i].purged,
                  ever_retained |-> last_run.ever_retained \/ runs[i].retained]

\* Lines 24-30: insert the execution row as running, commit, refresh.
GenCreate ==
  \E i \in 1..Len(runs) :
    /\ runs[i].pc = "create"
    /\ \/ \* committed and refreshed
          /\ executions' = executions \cup {Execution(next_exec_id, now, "running")}
          /\ next_exec_id' = next_exec_id + 1
          /\ Update(i, [runs[i] EXCEPT !.pc = "load", !.snapshot = next_exec_id])
       \/ \* committed, and the refresh raises
          /\ executions' = executions \cup {Execution(next_exec_id, now, "running")}
          /\ next_exec_id' = next_exec_id + 1
          /\ Update(i, [runs[i] EXCEPT !.pc = "except", !.snapshot = next_exec_id,
                                       !.err = "refresh"])
       \/ \* the commit raises: rolled back, the object is no longer in the
          \* session, and the session's transaction is left inactive
          /\ UNCHANGED <<executions, next_exec_id>>
          /\ Update(i, [runs[i] EXCEPT !.pc = "except", !.err = "create"])
    /\ UNCHANGED <<now, ctl_vars, ref_vars, metrics, next_metric_id, last_run, probe, auth>>

\* The load without the is_active filter.
GenLoadEveryFacility ==
  \E i \in 1..Len(runs) :
    /\ runs[i].pc = "load"
    /\ \/ Update(i, [runs[i] EXCEPT !.pc = "loop",
                                    !.loaded = facilities,
                                    !.statuses = hvac_statuses])
       \/ Update(i, [runs[i] EXCEPT !.pc = "except", !.err = "load"])
    /\ UNCHANGED <<now, ctl_vars, ref_vars, db_vars, last_run, probe, auth>>

\* Lines 32-33: load the active facilities and the HVAC statuses.
GenLoad ==
  \E i \in 1..Len(runs) :
    /\ runs[i].pc = "load"
    /\ \/ Update(i, [runs[i] EXCEPT !.pc = "loop",
                                    !.loaded = ActiveFacilities(facilities),
                                    !.statuses = hvac_statuses])
       \/ Update(i, [runs[i] EXCEPT !.pc = "except", !.err = "load"])
    /\ UNCHANGED <<now, ctl_vars, ref_vars, db_vars, last_run, probe, auth>>

\* Lines 35-51: one metric row per loaded facility, added to the session.
GenLoop ==
  \E i \in 1..Len(runs) :
    /\ runs[i].pc = "loop"
    /\ \E o \in LoopOutcomes(runs[i].loaded, runs[i].statuses, runs[i].snapshot, <<>>) :
         Update(i, [runs[i] EXCEPT !.pc = IF o.ok THEN "commit" ELSE "except",
                                   !.err = IF o.ok THEN "none" ELSE "loop",
                                   !.pending = o.pending])
    /\ UNCHANGED <<now, ctl_vars, ref_vars, db_vars, last_run, probe, auth>>

\* Lines 53-56: status success and the metric rows, in one commit.
GenCommit ==
  \E i \in 1..Len(runs) :
    /\ runs[i].pc = "commit"
    /\ \/ /\ executions' = SetStatus(executions, runs[i].snapshot, "success")
          /\ metrics' = metrics \cup Flush(runs[i].pending, next_metric_id)
          /\ next_metric_id' = next_metric_id + Len(runs[i].pending)
          /\ Update(i, [runs[i] EXCEPT !.pc = "retain", !.pending = <<>>])
       \/ \* the commit raises: rolled back, the pending rows leave the
          \* session, and the session's transaction is left inactive
          /\ UNCHANGED <<executions, metrics, next_metric_id>>
          /\ Update(i, [runs[i] EXCEPT !.pc = "except", !.err = "commit",
                                       !.pending = <<>>])
    /\ UNCHANGED <<now, ctl_vars, ref_vars, next_exec_id, last_run, probe, auth>>

\* Line 57, lines 72-74: the query of retain_last_n(db, 50).  With no more
\* than 50 rows read the call returns; otherwise it goes on to delete the rows
\* it has read.
GenRetain ==
  \E i \in 1..Len(runs) :
    /\ runs[i].pc = "retain"
    /\ \/ \E ordered \in OrderByTimeDesc(executions) :
            LET old == OldRows(ordered, RETAIN_LIMIT)
            IN IF old = <<>>
               THEN End(i, "returned", TRUE, 0)
               ELSE Update(i, [runs[i] EXCEPT !.pc = "purge", !.old = old])
       \/ \* the query raises
          Update(i, [runs[i] EXCEPT !.pc = "except", !.err = "retain"])
    /\ UNCHANGED <<now, ctl_vars, ref_vars, db_vars, last_run, probe, auth>>

\* Lines 76-82: the loop over the rows read and the commit of its deletes,
\* which take effect on the store as it is at the commit.
GenPurge ==
  \E i \in 1..Len(runs) :
    /\ runs[i].pc = "purge"
    /\ \/ LET kept == DeleteOld(executions, metrics, Range(runs[i].old))
          IN /\ executions' = kept.executions
             /\ metrics' = kept.metrics
             /\ End(i, "returned", TRUE,
                    Cardinality(executions) - Cardinality(kept.executions))
       \/ \* a statement of the loop raises: the deletes before it stay in
          \* the session
          \E gone \in PartialDeletes(runs[i].old) :
            /\ UNCHANGED <<executions, metrics>>
            /\ Update(i, [runs[i] EXCEPT !.pc = "except", !.err = "retain",
                                         !.old = <<>>, !.deleted = gone])
       \/ \* the commit raises: rolled back, and the session's transaction
          \* is left inactive
          /\ UNCHANGED <<executions, metrics>>
          /\ Update(i, [runs[i] EXCEPT !.pc = "except", !.err = "purge",
                                       !.old = <<>>])
    /\ UNCHANGED <<now, ctl_vars, ref_vars, next_exec_id, next_metric_id, last_run,
                   probe, auth>>

\* A commit of the call has raised: the session's transaction was rolled back
\* and is inactive until Session.rollback(), which the call never issues, so
\* every later commit on the session raises.
SessionInactive(run) == run.err \in {"create", "commit", "purge"}

\* The failure handler taking the job out of the scheduler as it ends the run.
GenExceptDeregisters ==
  \E i \in 1..Len(runs) :
    /\ runs[i].pc = "except"
    /\ \/ /\ SessionInactive(runs[i])
          /\ UNCHANGED db_vars
          /\ End(i, "raised", FALSE, 0)
       \/ /\ ~SessionInactive(runs[i])
          /\ LET old == runs[i].deleted
                 kept == DeleteOld(executions, metrics, old)
             IN /\ executions' = SetStatus(kept.executions, runs[i].snapshot, "failed")
                /\ metrics' = kept.metrics \cup Flush(runs[i].pending, next_metric_id)
                /\ next_metric_id' = next_metric_id + Len(runs[i].pending)
                /\ UNCHANGED next_exec_id
                /\ End(i, "returned", FALSE, Cardinality(old))
       \/ /\ ~SessionInactive(runs[i])
          /\ UNCHANGED db_vars
          /\ End(i, "raised", FALSE, 0)
    /\ jobs' = {j \in jobs : j.id # JOB_ID}
    /\ UNCHANGED <<now, timers, app, last_call, ref_vars, last_run, probe, auth>>

\* Lines 59-61: except Exception: snapshot.status = "failed"; db.commit().
\* The commit writes whatever the session still holds: the status, the metric
\* rows added before a failure in the loop, the deletes of a retention pass
\* that raised.  It is outside any try: when it raises, the call raises.
GenExcept ==
  \E i \in 1..Len(runs) :
    /\ runs[i].pc = "except"
    /\ \/ \* after a commit that raised, the handler's commit raises as well
          /\ SessionInactive(runs[i])
          /\ UNCHANGED db_vars
          /\ End(i, "raised", FALSE, 0)
       \/ /\ ~SessionInactive(runs[i])
          /\ LET old == runs[i].deleted
                 kept == DeleteOld(executions, metrics, old)
             IN /\ executions' = SetStatus(kept.executions, runs[i].snapshot, "failed")
                /\ metrics' = kept.metrics \cup Flush(runs[i].pending, next_metric_id)
                /\ next_metric_id' = next_metric_id + Len(runs[i].pending)
                /\ UNCHANGED next_exec_id
                /\ End(i, "returned", FALSE, Cardinality(old))
       \/ \* the handler's commit raises: rolled back, the exception leaves the call
          /\ ~SessionInactive(runs[i])
          /\ UNCHANGED db_vars
          /\ End(i, "raised", FALSE, 0)
    /\ UNCHANGED <<now, ctl_vars, ref_vars, last_run, probe, auth>>

\* Lines 63-64: finally: db.close(); the call leaves its thread, and the
\* executor's callback gives the instance slot back.  Until then the
\* executor counts the call as running.
GenClose ==
  \E i \in 1..Len(runs) :
    /\ runs[i].pc = "finally"
    /\ Finish(i)
    /\ UNCHANGED <<now, ctl_vars, ref_vars, db_vars, probe, auth>>

\* ------------------------------------------------------------ the system
\* The store after n earlier successful runs, one a tick, the last at time 0.
SeededExecutions(n) == {Execution(k, k - n, "success") : k \in 1..n}

SeededMetrics(n, table, statuses) ==
  LET act == ActiveFacilities(table)
  IN {Metric((k - 1) * Len(act) + a, k, act[a].id,
             CHOOSE h \in statuses : \A g \in statuses : h <= g,
             OccupancyLow(act[a].capacity))
      : <<k, a>> \in (1..n) \X (1..Len(act))}

NoRun ==
  [outcome |-> "none", snapshot |-> 0, err |-> "none", retained |-> FALSE,
   purged |-> 0, ever_retained |-> FALSE]

NoProbe == [called |-> FALSE, limit |-> 0, before |-> {}]

\* request.headers.get(name) of a header the request does not carry: None.
None == [present |-> FALSE, value |-> <<>>]

NoAuth ==
  [called |-> FALSE, request |-> [authorization |-> None, x_api_key |-> None],
   allowed |-> {}, outcome |-> [kind |-> "none"]]

\* The hvac_statuses table after startup(): healthy, warning, critical, which
\* startup inserts into an empty table and nothing deletes.
SeededStatuses == {1, 2, 3}

\* No facility (an empty FACILITY_SEED); one active and one inactive facility
\* over a full retention window; two active facilities.
Deployments ==
  { Deployment(<<>>, SeededStatuses, 0),
    Deployment(<<Facility("F1", 1, TRUE), Facility("F2", 10, FALSE)>>, SeededStatuses,
               RETAIN_LIMIT),
    Deployment(<<Facility("F1", 1, TRUE), Facility("F2", 1, TRUE)>>, SeededStatuses, 0) }

\* The process after startup: no job, the scheduler not started, the store as
\* the deployment left it.
Init ==
  /\ now = 0
  /\ jobs = {}
  /\ timers = 0
  /\ app = "serving"
  /\ last_call = NoCall
  /\ \E d \in Deployments :
       /\ facilities = d.facilities
       /\ hvac_statuses = d.hvac_statuses
       /\ executions = SeededExecutions(d.seeded)
       /\ metrics = SeededMetrics(d.seeded, d.facilities, d.hvac_statuses)
       /\ next_exec_id = d.seeded + 1
       /\ next_metric_id = d.seeded * Len(ActiveFacilities(d.facilities)) + 1
  /\ runs = <<>>
  /\ last_run = NoRun
  /\ probe = NoProbe
  /\ auth = NoAuth

Next ==
  \/ start_scheduler
  \/ pause_scheduler
  \/ resume_scheduler
  \/ stop_scheduler
  \/ shutdown
  \/ scheduler_shutdown
  \/ TimerFire
  \/ Tick
  \/ GenCreate
  \/ GenLoad
  \/ GenLoop
  \/ GenCommit
  \/ GenRetain
  \/ GenPurge
  \/ GenExcept
  \/ GenClose

Spec == Init /\ [][Next]_vars

\* ------------------------------------------- the service with its threads
\* One facility, not active, over an empty store.
LiveDeployments == {Deployment(<<Facility("F1", 1, FALSE)>>, SeededStatuses, 0)}

InitLive ==
  /\ now = 0
  /\ jobs = {}
  /\ timers = 0
  /\ app = "serving"
  /\ last_call = NoCall
  /\ \E d \in LiveDeployments :
       /\ facilities = d.facilities
       /\ hvac_statuses = d.hvac_statuses
       /\ executions = SeededExecutions(d.seeded)
       /\ metrics = SeededMetrics(d.seeded, d.facilities, d.hvac_statuses)
       /\ next_exec_id = d.seeded + 1
       /\ next_metric_id = d.seeded * Len(ActiveFacilities(d.facilities)) + 1
  /\ runs = <<>>
  /\ last_run = NoRun
  /\ probe = NoProbe
  /\ auth = NoAuth

\* The steps of the service over the clock of SpecLive.  The store starts
\* empty and gains at most one row per fire time, so the query of GenRetain
\* never reads more than RETAIN_LIMIT rows and GenPurge has no call to act on.
NextLive ==
  \/ start_scheduler
  \/ pause_scheduler
  \/ resume_scheduler
  \/ stop_scheduler
  \/ shutdown
  \/ scheduler_shutdown
  \/ TimerFire
  \/ TickLive
  \/ GenCreate
  \/ GenLoad
  \/ GenLoop
  \/ GenCommit
  \/ GenRetain
  \/ GenExcept
  \/ GenClose

\* The clock advances, the scheduler's thread wakes for a due job, and the
\* executor's thread takes every step of a call it was handed; the
\* administrative calls and the shutdown come whenever they are made, or
\* never.
Fairness ==
  /\ WF_vars(TickLive)
  /\ WF_vars(TimerFire)
  /\ WF_vars(GenCreate)
  /\ WF_vars(GenLoad)
  /\ WF_vars(GenLoop)
  /\ WF_vars(GenCommit)
  /\ WF_vars(GenRetain)
  /\ WF_vars(GenExcept)
  /\ WF_vars(GenClose)

SpecLive == InitLive /\ [][NextLive]_vars /\ Fairness

\* --------------------------------------- retain_last_n on any small store
\* The stores retain_last_n is handed: up to MaxRows executions with any
\* execution times (equal ones included), and the store of 60 successful runs.
RetainStores ==
  UNION { {{Execution(k, t[k], "success") : k \in 1..n} : t \in [1..n -> 1..MaxRowTime]}
          : n \in 0..MaxRows }
  \cup {SeededExecutions(RETAIN_LIMIT + 10)}

InitRetain ==
  /\ now = 0
  /\ jobs = {}
  /\ timers = 0
  /\ app = "serving"
  /\ last_call = NoCall
  /\ facilities = <<Facility("F1", 3, TRUE)>>
  /\ hvac_statuses = SeededStatuses
  /\ executions \in RetainStores
  /\ metrics = {Metric(e.id, e.id, "F1", 1, 1) : e \in executions}
  /\ next_exec_id = Cardinality(executions) + 1
  /\ next_metric_id = Cardinality(executions) + 1
  /\ runs = <<>>
  /\ last_run = NoRun
  /\ probe = NoProbe
  /\ auth = NoAuth

\* One call retain_last_n(db, limit) that commits.
RetainCall ==
  \E limit \in (0..MaxLimit) \cup {RETAIN_LIMIT} :
    \E kept \in retain_last_n(executions, metrics, limit) :
      /\ executions' = kept.executions
      /\ metrics' = kept.metrics
      /\ probe' = [called |-> TRUE, limit |-> limit, before |-> executions]
      /\ UNCHANGED <<now, ctl_vars, ref_vars, next_exec_id, next_metric_id, gen_vars, auth>>

SpecRetain == InitRetain /\ [][RetainCall]_vars

\* ------------------------------------- one generate_snapshot call, any table
\* The facilities tables one call is run over: none, one facility of every
\* capacity up to MaxCapacity, active or not, and the three active facilities
\* of capacities 10, 100 and 3.
GenerateTables ==
  {<<>>}
  \cup {<<Facility("F1", c, a)>> : <<c, a>> \in (1..MaxCapacity) \X BOOLEAN}
  \cup {<<Facility("F1", 10, TRUE), Facility("F2", 100, TRUE), Facility("F3", 3, TRUE)>>}

\* What one call is run over: every table over an empty store, with the
\* hvac_statuses table as startup() seeded it or empty (its rows deleted in
\* the database since, which no code of the service does); and one active
\* facility over a full retention window.
GenerateDeployments ==
  {Deployment(t, h, 0) : <<t, h>> \in GenerateTables \X {SeededStatuses, {}}}
  \cup {Deployment(<<Facility("F1", 1, TRUE)>>, SeededStatuses, RETAIN_LIMIT)}

\* The job was started at time 0 and has fired once: its first call has just
\* been handed to the executor.
InitGenerate ==
  /\ now = INTERVAL
  /\ jobs = {Job(JOB_ID, INTERVAL, <<INTERVAL + INTERVAL>>)}
  /\ timers = 1
  /\ app = "serving"
  /\ last_call = Call("start", "Absent", "started")
  /\ \E d \in GenerateDeployments :
       /\ facilities = d.facilities
       /\ hvac_statuses = d.hvac_statuses
       /\ executions = SeededExecutions(d.seeded)
       /\ metrics = SeededMetrics(d.seeded, d.facilities, d.hvac_statuses)
       /\ next_exec_id = d.seeded + 1
       /\ next_metric_id = d.seeded * Len(ActiveFacilities(d.facilities)) + 1
  /\ runs = <<NewRun>>
  /\ last_run = NoRun
  /\ probe = NoProbe
  /\ auth = NoAuth

NextGenerate ==
  \/ GenCreate
  \/ GenLoad
  \/ GenLoop
  \/ GenCommit
  \/ GenRetain
  \/ GenPurge
  \/ GenExcept
  \/ GenClose

SpecGenerate == InitGenerate /\ [][NextGenerate]_vars

\* ----------------------------------------------------------- authenticate
\* A string is the sequence of its parts: a part is one space, one colon, or a
\* run of characters holding neither.  The secrets of app/config.py:
BASIC_USER == <<"user">>

BASIC_PASS == <<"pass">>

API_KEY == <<"key">>

BEARER_TOKEN == <<"token">>

\* A header the request carries, with its value.
Header(value) == [present |-> TRUE, value |-> value]

\* Python truthiness of a header value: neither None nor "".
Truthy(h) == h.present /\ h.value # <<>>

\* s.split(sep): the pieces between the separators, empty pieces included.
RECURSIVE split(_, _)
split(s, sep) ==
  IF \A i \in 1..Len(s) : s[i] # sep
  THEN <<s>>
  ELSE LET k == CHOOSE i \in 1..Len(s) : s[i] = sep /\ \A j \in 1..(i - 1) : s[j] # sep
       IN <<SubSeq(s, 1, k - 1)>> \o split(SubSeq(s, k + 1, Len(s)), sep)

\* The parts of the model's strings that begin with the characters of `prefix`.
PartsBeginning(prefix) ==
  CASE prefix = "Basic" -> {"Basic", "BasicdXNlcjpwYXNz"}
    [] prefix = "Bearer" -> {"Bearer", "Bearertoken"}

\* s.startswith(prefix), prefix without space or colon
startswith(s, prefix) == s # <<>> /\ s[1] \in PartsBeginning(prefix)

\* b64decode(encoded).decode() of the encoded texts of the model: the decoded
\* string, or an exception (a text that is no base64 of a UTF-8 string).
Base64Text ==
  [e \in {"dXNlcjpwYXNz", "dXNlcjp3cm9uZw==", "dXNlcnBhc3M=", "dXNlcjpwYXNzOng=", "!!"} |->
     CASE e = "dXNlcjpwYXNz" -> <<"user", ":", "pass">>
       [] e = "dXNlcjp3cm9uZw==" -> <<"user", ":", "wrong">>
       [] e = "dXNlcnBhc3M=" -> <<"userpass">>
       [] e = "dXNlcjpwYXNzOng=" -> <<"user", ":", "pass", ":", "x">>
       [] e = "!!" -> <<>>]

b64decode(encoded) ==
  IF encoded = <<>> THEN [raised |-> FALSE, text |-> <<>>]
  ELSE IF Len(encoded) = 1 /\ encoded[1] \in DOMAIN Base64Text
  THEN [raised |-> FALSE, text |-> Base64Text[encoded[1]]]
  ELSE [raised |-> TRUE, text |-> <<>>]

\* Lines 6-13: every exception inside (no second piece, no base64, not exactly
\* one colon) is caught and gives False.
validate_basic(auth_header) ==
  LET pieces == split(auth_header, " ")
  IN IF Len(pieces) < 2 THEN FALSE
     ELSE LET decoded == b64decode(pieces[2])
          IN IF decoded.raised THEN FALSE
             ELSE LET fields == split(decoded.text, ":")
                  IN IF Len(fields) # 2 THEN FALSE
                     ELSE fields[1] = BASIC_USER /\ fields[2] = BASIC_PASS

Return == [kind |-> "return"]

HTTPException(status_code, detail) ==
  [kind |-> "HTTPException", status_code |-> status_code, detail |-> detail]

\* auth_header.split(" ")[1] on a header of one piece; nothing catches it.
IndexError == [kind |-> "IndexError"]

\* authenticate consulting the header schemes before the API key.
authenticate_headers_first(request, allowed) ==
  LET auth_header == request.authorization
      api_key == request.x_api_key
      basic_ok == /\ Truthy(auth_header)
                  /\ startswith(auth_header.value, "Basic")
                  /\ "basic" \in allowed
                  /\ validate_basic(auth_header.value)
      bearer_on == /\ Truthy(auth_header)
                   /\ startswith(auth_header.value, "Bearer")
                   /\ "bearer" \in allowed
  IN IF ~Truthy(auth_header) /\ ~Truthy(api_key)
     THEN IF "none" \in allowed THEN Return ELSE HTTPException(401, "Unauthorized")
     ELSE IF basic_ok THEN Return
     ELSE IF bearer_on /\ Len(split(auth_header.value, " ")) < 2 THEN IndexError
     ELSE IF bearer_on /\ split(auth_header.value, " ")[2] = BEARER_TOKEN THEN Return
     ELSE IF Truthy(api_key) /\ "apikey" \in allowed
     THEN IF api_key.value = API_KEY THEN Return
          ELSE HTTPException(401, "Invalid API Key")
     ELSE HTTPException(401, "Unauthorized")

\* Lines 16-37: the outcome of authenticate(request, allowed).
authenticate(request, allowed) ==
  LET auth_header == request.authorization
      api_key == request.x_api_key
      basic_ok == /\ Truthy(auth_header)
                  /\ startswith(auth_header.value, "Basic")
                  /\ "basic" \in allowed
                  /\ validate_basic(auth_header.value)
      bearer_on == /\ Truthy(auth_header)
                   /\ startswith(auth_header.value, "Bearer")
                   /\ "bearer" \in allowed
  IN IF ~Truthy(auth_header) /\ ~Truthy(api_key)
     THEN IF "none" \in allowed THEN Return ELSE HTTPException(401, "Unauthorized")
     ELSE IF Truthy(api_key) /\ "apikey" \in allowed
     THEN IF api_key.value = API_KEY THEN Return
          ELSE HTTPException(401, "Invalid API Key")
     ELSE IF basic_ok THEN Return
     ELSE IF bearer_on /\ Len(split(auth_header.value, " ")) < 2 THEN IndexError
     ELSE IF bearer_on /\ split(auth_header.value, " ")[2] = BEARER_TOKEN THEN Return
     ELSE HTTPException(401, "Unauthorized")

\* The Authorization headers a request is sent with: none, empty, Basic with a
\* right, wrong, colon-less, two-colon, empty-decoding and undecodable payload,
\* Basic and Bearer without a payload or without the space, with two spaces,
\* with a trailing piece, and a lower-case scheme.
AuthorizationHeaders ==
  {None, Header(<<>>)} \cup
  { Header(v) : v \in
      { <<"Basic", " ", "dXNlcjpwYXNz">>,
        <<"Basic", " ", "dXNlcjp3cm9uZw==">>,
        <<"Basic", " ", "dXNlcnBhc3M=">>,
        <<"Basic", " ", "dXNlcjpwYXNzOng=">>,
        <<"Basic", " ", "!!">>,
        <<"Basic", " ", "token">>,
        <<"Basic">>,
        <<"BasicdXNlcjpwYXNz">>,
        <<"Basic", " ", " ", "dXNlcjpwYXNz">>,
        <<"Bearer", " ", "token">>,
        <<"Bearer", " ", "wrong">>,
        <<"Bearer">>,
        <<"Bearertoken">>,
        <<"Bearer", " ", " ", "token">>,
        <<"Bearer", " ", "token", " ", "x">>,
        <<"bearer", " ", "token">> } }

\* The X-API-Key headers: none, empty, the configured key, another key.
ApiKeyHeaders == {None, Header(<<>>), Header(API_KEY), Header(<<"wrong">>)}

\* The allowed lists an endpoint can pass.
AllowedLists == SUBSET {"none", "basic", "apikey", "bearer"}

InitAuth ==
  /\ now = 0
  /\ jobs = {}
  /\ timers = 0
  /\ app = "serving"
  /\ last_call = NoCall
  /\ facilities = <<>>
  /\ hvac_statuses = SeededStatuses
  /\ executions = {}
  /\ metrics = {}
  /\ next_exec_id = 1
  /\ next_metric_id = 1
  /\ runs = <<>>
  /\ last_run = NoRun
  /\ probe = NoProbe
  /\ \E h \in AuthorizationHeaders, k \in ApiKeyHeaders, allowed \in AllowedLists :
       auth = [NoAuth EXCEPT !.request = [authorization |-> h, x_api_key |-> k],
                             !.allowed = allowed]

\* One call authenticate(request, allowed).
AuthenticateCall ==
  /\ ~auth.called
  /\ auth' = [auth EXCEPT !.called = TRUE,
                          !.outcome = authenticate(auth.request, auth.allowed)]
  /\ UNCHANGED <<now, ctl_vars, ref_vars, db_vars, gen_vars, probe>>

SpecAuth == InitAuth /\ [][AuthenticateCall]_vars

\* ================================================================ claims
\* The table of section 4.3: the state and the token after `op` in state `pre`.
TransitionTable(op, pre) ==
  CASE op = "start" /\ pre = "Absent" -> <<"Active", "started">>
    [] op = "start" /\ pre = "Active" -> <<"Active", "already_running">>
    [] op = "start" /\ pre = "Paused" -> <<"Paused", "already_running">>
    [] op = "pause" /\ pre = "Absent" -> <<"Absent", "not_running">>
    [] op = "pause" /\ pre = "Active" -> <<"Paused", "paused">>
    [] op = "pause" /\ pre = "Paused" -> <<"Paused", "paused">>
    [] op = "resume" /\ pre = "Absent" -> <<"Absent", "not_running">>
    [] op = "resume" /\ pre = "Active" -> <<"Active", "already_running">>
    [] op = "resume" /\ pre = "Paused" -> <<"Active", "resumed">>
    [] op = "stop" /\ pre = "Absent" -> <<"Absent", "not_running">>
    [] op = "stop" /\ pre = "Active" -> <<"Absent", "stopped">>
    [] op = "stop" /\ pre = "Paused" -> <<"Absent", "stopped">>

\* C1: after every start, pause, resume or stop, in every job state except
\* resume on an Active job, the job is in the state and the call returned the
\* token the transition table gives, whether or not a run is in flight.
C1_TransitionTable ==
  (/\ last_call.op \in {"start", "pause", "resume", "stop"}
   /\ ~(last_call.op = "resume" /\ last_call.pre = "Active"))
    => <<JobState, last_call.ret>> = TransitionTable(last_call.op, last_call.pre)

\* A second stop, on the job the first one removed, returned "not_running"
\* while a generation run was in flight.
C1_Witness ==
  /\ last_call = Call("stop", "Absent", "not_running")
  /\ timers = 1
  /\ runs # <<>>

\* C2 as stated: resume on an Active job returns "already_running" and leaves
\* the job Active.
C2_ResumeActiveAlreadyRunning ==
  (last_call.op = "resume" /\ last_call.pre = "Active")
    => (last_call.ret = "already_running" /\ JobState = "Active")

\* C2 amended: resume on an Active job returns "resumed" and leaves the job
\* Active.
C2_ResumeActiveResumed ==
  (last_call.op = "resume" /\ last_call.pre = "Active")
    => (last_call.ret = "resumed" /\ JobState = "Active")

C2_Witness ==
  /\ last_call.op = "resume"
  /\ last_call.pre = "Active"
  /\ JobState = "Active"

\* C3: start on a registered job returns "already_running" and changes neither
\* the job store (one job snapshot_job, its next fire time and paused flag as
\* they were) nor the number of timers (one).
C3_StartIdempotent ==
  [][(start_scheduler /\ get_job(JOB_ID) # {})
       => /\ last_call'.ret = "already_running"
          /\ jobs' = jobs
          /\ Cardinality({j \in jobs' : j.id = JOB_ID}) = 1
          /\ timers' = timers
          /\ timers' = 1]_vars

\* A start found the job it registered earlier still Active.
C3_Witness ==
  /\ last_call = Call("start", "Active", "already_running")
  /\ Cardinality(jobs) = 1
  /\ timers = 1

\* C4: every execution whose status is success has exactly one metric row for
\* each active facility and no other metric row.
C4_OneMetricPerActiveFacility ==
  \A e \in executions :
    e.status = "success" =>
      LET rows == MetricsOf(metrics, e.id)
          active == {f \in Range(facilities) : f.is_active}
      IN /\ \A f \in active : Cardinality({m \in rows : m.facility_id = f.id}) = 1
         /\ \A m \in rows : \E f \in active : m.facility_id = f.id

\* A run of this lifetime returned with its execution success and two metric rows.
C4_Witness ==
  /\ last_run.outcome = "returned"
  /\ last_run.err = "none"
  /\ \E e \in executions :
       /\ e.id = last_run.snapshot
       /\ e.status = "success"
       /\ Cardinality(MetricsOf(metrics, e.id)) = 2

\* C5: after retain_last_n(limit) the number of executions is min(count before,
\* limit), the survivors are rows of the store before, each at least as recent
\* as every purged row, and 60 runs under limit 50 leave the 50 most recent.
C5_RetentionKeepsMostRecent ==
  probe.called =>
    /\ executions \subseteq probe.before
    /\ Cardinality(executions) = Min(Cardinality(probe.before), probe.limit)
    /\ \A kept \in executions : \A purged \in probe.before \ executions :
         kept.execution_time >= purged.execution_time
    /\ (probe.before = SeededExecutions(RETAIN_LIMIT + 10) /\ probe.limit = RETAIN_LIMIT)
         => executions = {e \in probe.before : e.id > 10}

\* Retention with limit 50 over the store of 60 runs has purged ten rows.
C5_Witness ==
  /\ probe.called
  /\ probe.limit = RETAIN_LIMIT
  /\ Cardinality(probe.before) = RETAIN_LIMIT + 10
  /\ Cardinality(executions) = RETAIN_LIMIT

\* C6: every committed metric row refers to an execution row that exists.
C6_NoOrphanMetric ==
  \A m \in metrics : \E e \in executions : e.id = m.snapshot_id

\* A run has purged an execution that had metric rows, and metric rows remain.
C6_Witness ==
  /\ last_run.purged > 0
  /\ metrics # {}
  /\ ActiveFacilities(facilities) # <<>>

\* C7 as stated: once retention has run, the store holds at most 50 executions
\* whenever no run is in flight.
C7_AtMostLimitOnceRetained ==
  (last_run.ever_retained /\ runs = <<>>) => Cardinality(executions) <= RETAIN_LIMIT

\* C7 amended: when no run is in flight and the last finished run completed
\* its retention pass, the store holds at most 50 executions.
C7_AtMostLimitAfterRetention ==
  (last_run.retained /\ runs = <<>>) => Cardinality(executions) <= RETAIN_LIMIT

\* The last run ended with a retention pass that purged a row.
C7_Witness ==
  /\ last_run.retained
  /\ last_run.purged > 0
  /\ runs = <<>>
  /\ Cardinality(executions) = RETAIN_LIMIT

\* C8 as stated: a row is created running, and a status other than running
\* never changes.
C8_StatusChangesOnce ==
  [][/\ \A e \in executions' :
          (\A d \in executions : d.id # e.id) => e.status = "running"
     /\ \A d \in executions : \A e \in executions' :
          (d.id = e.id /\ d.status # "running") => e.status = d.status]_vars

\* The committed status of an execution, "absent" when the row is not there.
StatusOf(id) ==
  IF \E e \in executions : e.id = id
  THEN (CHOOSE e \in executions : e.id = id).status
  ELSE "absent"

\* C9 as stated: a run in which the load, the loop or the commit of the metric
\* rows failed leaves its execution failed and has deleted no execution.
C9_FailureFinalizesFailed ==
  last_run.err \in {"load", "loop", "commit"}
    => (StatusOf(last_run.snapshot) = "failed" /\ last_run.purged = 0)

\* C10 as stated: no generate_snapshot call that created its execution row
\* ends by raising.
C10_NeverRaises ==
  last_run.snapshot # 0 => last_run.outcome # "raised"

\* C11: at no time are two generate_snapshot calls in flight, whatever the
\* order of timer firings, runs' steps and administrative calls.
C11_SingleFlight ==
  Len(runs) <= 1

\* A call is in flight whose row was created before a stop and a new start,
\* and the job the new start registered has fired once since, at its first
\* fire time: that firing started no second call.
C11_Witness ==
  /\ Len(runs) = 1
  /\ last_call = Call("start", "Absent", "started")
  /\ \E j \in jobs :
       /\ j.next_run_time = <<j.start_date + INTERVAL>>
       /\ \E e \in executions :
            /\ e.id = runs[1].snapshot
            /\ e.status = "running"
            /\ e.execution_time < j.start_date

\* C12 as stated: a stop or pause called while a run is in flight leaves the
\* run and the store as they are and the job Absent or Paused, and the run that
\* was in flight ends with its execution row success or failed.
C12_StopDoesNotCancel ==
  [][/\ ((stop_scheduler \/ pause_scheduler) /\ runs # <<>>)
          => /\ runs' = runs
             /\ UNCHANGED db_vars
             /\ JobState' \in {"Absent", "Paused"}
     /\ (Len(runs') < Len(runs) /\ last_call.op \in {"stop", "pause"}
           /\ last_run'.snapshot # 0)
          => \E e \in executions' :
               e.id = last_run'.snapshot /\ e.status \in {"success", "failed"}]_vars

\* C17 as stated: when no generate_snapshot call is in flight, no execution row
\* has status running.
C17_RunningOnlyInFlight ==
  runs = <<>> => \A e \in executions : e.status # "running"

\* C19 as stated: while the job is not Active (paused, stopped or never
\* started), no step creates an execution row.
C19_NoRowWhileNotActive ==
  [][JobState # "Active"
       => \A e \in executions' : \E d \in executions : d.id = e.id]_vars

\* C19 amended: while the job is not Active, no generate_snapshot call is
\* started; a call already in flight may still create its row and finish.
C19_NoRunStartsWhileNotActive ==
  [][JobState # "Active" => Len(runs') <= Len(runs)]_vars

\* The job was paused before its first fire time, that time has passed, and no
\* run was started.
C19_Witness ==
  /\ JobState = "Paused"
  /\ \E j \in jobs : now >= j.start_date
  /\ runs = <<>>
  /\ last_run = NoRun
  /\ executions = {}

\* C20 as stated: in every committed store state an execution whose status is
\* running or failed has no metric row.
C20_MetricsOnlyWithSuccess ==
  \A e \in executions :
    e.status \in {"running", "failed"} => MetricsOf(metrics, e.id) = {}

\* The capacity of the facility a metric row belongs to.
CapacityOf(facility_id) ==
  (CHOOSE f \in Range(facilities) : f.id = facility_id).capacity

\* C14: every metric row of an execution whose status is success has an
\* occupancy between floor(0.4 * capacity) and floor(0.9 * capacity) of its
\* facility, both included: 10 * occupancy > 4 * capacity - 10 and
\* 10 * occupancy <= 9 * capacity; for capacities 10, 100 and 3 the occupancy
\* is in 4..9, 40..90 and 1..2.
C14_OccupancyInRange ==
  \A e \in executions :
    e.status = "success" =>
      \A m \in MetricsOf(metrics, e.id) :
        LET c == CapacityOf(m.facility_id)
        IN /\ 10 * m.occupancy > 4 * c - 10
           /\ 10 * m.occupancy <= 9 * c
           /\ c = 10 => m.occupancy \in 4..9
           /\ c = 100 => m.occupancy \in 40..90
           /\ c = 3 => m.occupancy \in 1..2

\* A successful run over capacities 10, 100 and 3 wrote the occupancies 9, 40
\* and 2: both ends of a range occur.
C14_Witness ==
  /\ last_run.outcome = "returned"
  /\ StatusOf(last_run.snapshot) = "success"
  /\ \E m \in MetricsOf(metrics, last_run.snapshot) :
       CapacityOf(m.facility_id) = 10 /\ m.occupancy = 9
  /\ \E m \in MetricsOf(metrics, last_run.snapshot) :
       CapacityOf(m.facility_id) = 100 /\ m.occupancy = 40
  /\ \E m \in MetricsOf(metrics, last_run.snapshot) :
       CapacityOf(m.facility_id) = 3 /\ m.occupancy = 2

\* A finished call that got as far as loading the two reference tables.
LoadedRun ==
  /\ last_run.outcome # "none"
  /\ last_run.err \notin {"create", "refresh", "load"}

\* C18 as stated: a finished run that loaded an empty HVAC status set has left
\* its execution failed, whatever the active facilities.
C18_EmptyStatusSetFails ==
  (hvac_statuses = {} /\ LoadedRun) => StatusOf(last_run.snapshot) = "failed"

\* C18 amended: a finished run that loaded an empty HVAC status set and at
\* least one active facility failed in the loop, wrote no metric row and left
\* its execution failed, or running when the handler's own commit raised; with
\* no active facility the empty status set fails nothing: the loop ends, and a
\* run without any error leaves its execution success with no metric row.
C18_EmptyStatusSetFailsFirstFacility ==
  (hvac_statuses = {} /\ LoadedRun) =>
    IF \E f \in Range(facilities) : f.is_active
    THEN /\ last_run.err = "loop"
         /\ MetricsOf(metrics, last_run.snapshot) = {}
         /\ StatusOf(last_run.snapshot) =
              (IF last_run.outcome = "raised" THEN "running" ELSE "failed")
    ELSE /\ last_run.err # "loop"
         /\ last_run.err = "none" =>
              /\ StatusOf(last_run.snapshot) = "success"
              /\ MetricsOf(metrics, last_run.snapshot) = {}

\* A run over one active facility and no HVAC status failed in the loop and
\* left its execution failed.
C18_Witness ==
  /\ hvac_statuses = {}
  /\ \E f \in Range(facilities) : f.is_active
  /\ last_run.outcome = "returned"
  /\ last_run.err = "loop"
  /\ StatusOf(last_run.snapshot) = "failed"

\* The scheme an Authorization header value begins with.
SchemeOf(h) ==
  IF h.value # <<>> /\ h.value[1] \in {"Basic", "BasicdXNlcjpwYXNz"} THEN "basic"
  ELSE IF h.value # <<>> /\ h.value[1] \in {"Bearer", "Bearertoken"} THEN "bearer"
  ELSE "other"

\* C15: when the request carries a non-empty API key and "apikey" is allowed,
\* authenticate accepts if the key is the configured key and rejects with 401
\* otherwise, whatever the Authorization header; when it accepts a request
\* otherwise, the request carries no credential and "none" is allowed, or its
\* Authorization header is of a header scheme that is allowed.
C15_ApiKeyPrecedence ==
  auth.called =>
    LET h == auth.request.authorization
        k == auth.request.x_api_key
        keyed == k.present /\ k.value # <<>> /\ "apikey" \in auth.allowed
        bare == ~(h.present /\ h.value # <<>>) /\ ~(k.present /\ k.value # <<>>)
    IN /\ keyed =>
            IF k.value = <<"key">>
            THEN auth.outcome.kind = "return"
            ELSE /\ auth.outcome.kind = "HTTPException"
                 /\ auth.outcome.status_code = 401
       /\ (~keyed /\ auth.outcome.kind = "return") =>
            IF bare THEN "none" \in auth.allowed
            ELSE SchemeOf(h) \in auth.allowed \cap {"basic", "bearer"}

\* A request with a wrong API key and a valid Bearer token, both schemes
\* allowed, was rejected.
C15_Witness ==
  /\ auth.called
  /\ auth.request.x_api_key = Header(<<"wrong">>)
  /\ auth.request.authorization = Header(<<"Bearer", " ", "token">>)
  /\ {"apikey", "bearer"} \subseteq auth.allowed
  /\ auth.outcome.kind = "HTTPException"

\* C16 as stated: every call of authenticate returns or raises the
\* HTTPException with status 401.
C16_AcceptOrUnauthorized ==
  auth.called =>
    \/ auth.outcome.kind = "return"
    \/ auth.outcome.kind = "HTTPException" /\ auth.outcome.status_code = 401

\* A step of a generate_snapshot call.
GenStep ==
  \/ GenCreate \/ GenLoad \/ GenLoop \/ GenCommit
  \/ GenRetain \/ GenPurge \/ GenExcept \/ GenClose

\* The end of the clock is a fire time of the job: the timer cannot be late
\* for every fire time that is left.
FireTimeLeft ==
  \A j \in get_job(JOB_ID) :
    /\ j.next_run_time[1] <= MaxLiveTicks
    /\ (MaxLiveTicks - j.next_run_time[1]) % INTERVAL = 0

\* The last call has ended in failure and the executor has released its slot,
\* and the job is Active.
FailedRunBehind ==
  /\ runs = <<>>
  /\ last_run.outcome # "none"
  /\ last_run.err # "none"
  /\ JobState = "Active"
  /\ FireTimeLeft

\* The timer has started a further call, or the job was paused or removed, or
\* a resume at the end of the clock has moved the fire time beyond it.
FurtherRunOrNotActive ==
  \/ \E i \in 1..Len(runs) : runs[i].pc = "create"
  \/ JobState # "Active"
  \/ /\ last_call.op = "resume"
     /\ \E j \in get_job(JOB_ID) : j.next_run_time[1] > MaxLiveTicks

====
